---- MODULE Spec2Model ----
(***************************************************************************)
(* Model of the message transport and correlation layer of godet.go:       *)
(* RemoteDebugger.sendRequest (the callers), RemoteDebugger.readMessages   *)
(* (the dispatch loop started by Connect) and RemoteDebugger.Close.        *)
(*                                                                         *)
(* Bytes on the wire are sequences of tokens; a token stands for one       *)
(* lexical piece of a JSON text.  json.Unmarshal is the operator Unmarshal *)
(* below: it parses the token sequence, it is not the identity.            *)
(*                                                                         *)
(* What lies outside godet.go is modelled by its contract:                 *)
(*  - websocket.Conn.Write sends one whole frame under the connection's    *)
(*    write lock, and fails once this side has closed the connection;      *)
(*  - websocket.Conn.Read returns bytes of one frame at most, so a frame   *)
(*    longer than the buffer arrives in several reads; it returns n = 0    *)
(*    for an empty frame, and an error (io.EOF or another) at any time;    *)
(*  - a Go map read that runs while another goroutine writes the map may   *)
(*    abort the process (variable crashed);                                *)
(*  - remote.closed is a plain bool written by Close and read by           *)
(*    readMessages: a read yields the value last written.                  *)
(***************************************************************************)
EXTENDS Integers, Sequences, FiniteSets, TLC

\* ---------------------------------------------------------------- bounds
\* Calls that may be issued on the connection (ids 0 .. MaxCalls-1).
MaxCalls == 2
\* Frames the peer may send on the stream.
MaxFrames == 2
\* Targets the discovery endpoint may list.
MaxTabs == 3

\* The concurrent goroutines that invoke sendRequest.
Callers == {"c1", "c2"}

\* The nil channel: the value of responses[k] for a key that is absent, and
\* the value sendRequest stores when it clears its entry.
NilChan == 0

\* Ids a frame may carry: every id that can be allocated, and MaxCalls, which
\* never is.
IdSpace == 0 .. MaxCalls

\* ---------------------------------------------------------------- tokens
Tok(t, v) == [t |-> t, v |-> v]
LB == Tok("{", 0)
RB == Tok("}", 0)
IDT(i) == Tok("id", i)
RESK == Tok("result", 0)
METH(m) == Tok("method", m)
PARK == Tok("params", 0)
PAY(p) == Tok("value", p)
JUNK == Tok("junk", 0)

\* The result payload the peer sends in answer to id i, and the payload of a
\* reply that carries no id field.
PayloadOf(i) == <<LB, PAY(i + 1), RB>>
AnonPayload == <<LB, PAY(MaxCalls + 2), RB>>

\* {"id":i,"result":{...}}
ReplyFrame(i) == <<LB, IDT(i), RESK>> \o PayloadOf(i) \o <<RB>>
\* {"method":"E","params":7}
EventFrame == <<LB, METH(1), PARK, PAY(0), RB>>
\* {"id":1,"method":"E"}
EventWithIdFrame == <<LB, IDT(1), METH(1), RB>>
\* {"result":{...}}
AnonReplyFrame == <<LB, RESK>> \o AnonPayload \o <<RB>>
\* not JSON at all, and an object that is never closed
JunkFrame == <<JUNK>>
OpenFrame == <<LB, JUNK>>

ReplyFrames == {ReplyFrame(i) : i \in IdSpace}
Frames == ReplyFrames \cup {EventFrame, EventWithIdFrame, AnonReplyFrame, JunkFrame, OpenFrame}

\* ------------------------------------------------------------ json.Unmarshal
ZeroMessage == [ok |-> TRUE, Id |-> 0, Result |-> <<>>, Method |-> 0]
BadMessage == [ok |-> FALSE, Id |-> 0, Result |-> <<>>, Method |-> 0]

\* Length of the JSON value at the head of s (0 when there is none): a scalar,
\* or an object up to its matching brace.
RECURSIVE CloseAt(_, _, _)
CloseAt(s, k, depth) ==
  IF k > Len(s) THEN 0
  ELSE IF s[k] = LB THEN CloseAt(s, k + 1, depth + 1)
  ELSE IF s[k] = RB THEN (IF depth = 1 THEN k ELSE CloseAt(s, k + 1, depth - 1))
  ELSE IF s[k].t \in {"value", "id", "result", "method", "params"} THEN CloseAt(s, k + 1, depth)
  ELSE 0

ValueLen(s) ==
  IF s = <<>> THEN 0
  ELSE IF s[1].t = "value" THEN 1
  ELSE IF s[1] = LB THEN CloseAt(s, 1, 0)
  ELSE 0

RECURSIVE ParseFields(_, _)
ParseFields(s, m) ==
  IF s = <<>> THEN m
  ELSE IF s[1].t = "id" THEN ParseFields(Tail(s), [m EXCEPT !.Id = s[1].v])
  ELSE IF s[1].t = "method" THEN ParseFields(Tail(s), [m EXCEPT !.Method = s[1].v])
  ELSE IF s[1].t \in {"result", "params"} THEN
    LET n == ValueLen(Tail(s)) IN
    IF n = 0 THEN BadMessage
    ELSE ParseFields(SubSeq(s, n + 2, Len(s)),
                     IF s[1].t = "result" THEN [m EXCEPT !.Result = SubSeq(s, 2, n + 1)] ELSE m)
  ELSE BadMessage

Unmarshal(b) ==
  IF Len(b) < 2 \/ b[1] # LB \/ CloseAt(b, 1, 0) # Len(b) THEN BadMessage
  ELSE ParseFields(SubSeq(b, 2, Len(b) - 1), ZeroMessage)

\* ---------------------------------------------------------------- state
VARIABLES
  reqid,      \* remote.reqid
  closed,     \* remote.closed
  responses,  \* remote.responses: map from id to channel (NilChan = nil)
  chans,      \* the buffer of each channel made by sendRequest
  r_lock,     \* remote.r_lock: "" or the goroutine holding it
  wsOpen,     \* whether remote.ws is still open on this side
  wire,       \* ids of the envelopes written to the stream, in order
  pc,         \* each caller's position in sendRequest
  myid,       \* each caller's local reqid
  res,        \* each caller's returned payload, with the id of the message it came from
  err,        \* each caller's returned error ("" = nil)
  wch,        \* the channel each caller read from the map to wait on
  cl_pc,      \* position of the goroutine calling Close
  rm_pc,      \* position of readMessages
  bytes,      \* readMessages' accumulation buffer
  message,    \* readMessages' decoded message
  ch,         \* readMessages' local channel
  cur,        \* the frame the peer is sending
  inflight,   \* the part of cur not yet read
  nframes,    \* frames sent so far
  fclean,     \* the buffer was empty when the peer began to send cur
  logged,     \* what this iteration of readMessages wrote to the log ("" = nothing)
  crashed,    \* the runtime aborted the process (concurrent map read and write)
  co_pc,      \* position of the goroutine calling Connect
  tabs,       \* Connect's tabs: the WsUrl of each listed target, in order
  ti,         \* position of Connect's range loop in tabs
  wsUrl,      \* Connect's wsUrl
  dialed,     \* the address Connect passed to websocket.Dial ("none" before)
  ret,        \* what Connect returned: "none" yet, "remote" or "err"
  started     \* number of readMessages goroutines started

vars == <<reqid, closed, responses, chans, r_lock, wsOpen, wire, pc, myid, res, err, wch,
          cl_pc, rm_pc, bytes, message, ch, cur, inflight, nframes, fclean, logged,
          crashed, co_pc, tabs, ti, wsUrl, dialed, ret, started>>

callerVars == <<pc, myid, res, err, wch>>
readerVars == <<rm_pc, bytes, message, ch>>
peerVars == <<cur, inflight, nframes, fclean>>
connVars == <<co_pc, tabs, ti, wsUrl, dialed, ret, started>>

Handle(i) == i + 1

\* The nil payload a call returns with an error, and before it returns.
NoResult == [id |-> 0, val |-> <<>>]

\* Go map lookup: the zero value for an absent key.
Lookup(m, k) == IF k \in DOMAIN m THEN m[k] ELSE NilChan

Store(m, k, v) == [x \in DOMAIN m \cup {k} |-> IF x = k THEN v ELSE m[x]]

\* The RemoteDebugger as Connect constructs it (reqid 0, an empty responses
\* map, closed false), and every other goroutine before its first step.
Fresh ==
  /\ reqid = 0
  /\ closed = FALSE
  /\ responses = <<>>
  /\ chans = [h \in {Handle(i) : i \in IdSpace} |-> <<>>]
  /\ r_lock = ""
  /\ wire = <<>>
  /\ pc = [c \in Callers |-> "idle"]
  /\ myid = [c \in Callers |-> 0]
  /\ res = [c \in Callers |-> NoResult]
  /\ err = [c \in Callers |-> ""]
  /\ wch = [c \in Callers |-> NilChan]
  /\ cl_pc = "idle"
  /\ bytes = <<>>
  /\ message = ZeroMessage
  /\ ch = NilChan
  /\ cur = <<>>
  /\ inflight = <<>>
  /\ nframes = 0
  /\ fclean = TRUE
  /\ logged = ""
  /\ crashed = FALSE

\* The addresses a listed target may carry in WsUrl ("" = none).
Addrs == {"", "ws1", "ws2"}

\* What remote.TabList("") may return: any listing of up to MaxTabs targets.
TabLists == UNION {[1 .. n -> Addrs] : n \in 0 .. MaxTabs}

\* websocket.Dial fails on the empty address (it is no URL) and may fail on
\* any other.
DialOutcomes(a) == IF a = "" THEN {FALSE} ELSE BOOLEAN

\* Before Connect's first step: no connection, no dispatch loop.
ConnectInit ==
  /\ Fresh
  /\ wsOpen = FALSE
  /\ rm_pc = "off"
  /\ co_pc = "list"
  /\ tabs = <<>>
  /\ ti = 1
  /\ wsUrl = ""
  /\ dialed = "none"
  /\ ret = "none"
  /\ started = 0

\* After Connect returned a connection: the stream is open and readMessages
\* runs.  The listing held one target.
Init ==
  /\ Fresh
  /\ wsOpen = TRUE
  /\ rm_pc = "loop"
  /\ co_pc = "returned"
  /\ tabs = <<"ws1">>
  /\ ti = 1
  /\ wsUrl = "ws1"
  /\ dialed = "ws1"
  /\ ret = "remote"
  /\ started = 1

\* ----------------------------------------------------------------- Connect
\* What Connect leaves alone of the RemoteDebugger and of the other goroutines.
remoteVars == <<reqid, closed, responses, chans, r_lock, wire, callerVars, cl_pc,
                bytes, message, ch, peerVars, logged, crashed>>

\* tabs, err := remote.TabList(""); if err != nil { return nil, err }
Connect_TabList ==
  /\ co_pc = "list"
  /\ \E ok \in BOOLEAN :
       IF ok
       THEN /\ \E l \in TabLists : tabs' = l
            /\ co_pc' = "scan"
            /\ ret' = ret
       ELSE /\ tabs' = tabs
            /\ co_pc' = "returned"
            /\ ret' = "err"
  /\ UNCHANGED <<remoteVars, wsOpen, rm_pc, ti, wsUrl, dialed, started>>

\* Mutant: the range loop has no break.
Connect_ScanNoBreak ==
  /\ co_pc = "scan"
  /\ IF ti > Len(tabs)
     THEN co_pc' = "dial" /\ UNCHANGED <<ti, wsUrl>>
     ELSE /\ wsUrl' = (IF tabs[ti] # "" THEN tabs[ti] ELSE wsUrl)
          /\ ti' = ti + 1
          /\ co_pc' = co_pc
  /\ UNCHANGED <<remoteVars, wsOpen, rm_pc, tabs, dialed, ret, started>>

\* One iteration of `for _, tab := range tabs`: take the first non-empty WsUrl
\* and break.
Connect_Scan ==
  /\ co_pc = "scan"
  /\ IF ti > Len(tabs)
     THEN co_pc' = "dial" /\ UNCHANGED <<ti, wsUrl>>
     ELSE IF tabs[ti] # ""
     THEN wsUrl' = tabs[ti] /\ co_pc' = "dial" /\ ti' = ti
     ELSE ti' = ti + 1 /\ UNCHANGED <<co_pc, wsUrl>>
  /\ UNCHANGED <<remoteVars, wsOpen, rm_pc, tabs, dialed, ret, started>>

\* remote.ws, err = websocket.Dial(wsUrl, ...); if err != nil { return nil, err }
Connect_Dial ==
  /\ co_pc = "dial"
  /\ dialed' = wsUrl
  /\ \E ok \in DialOutcomes(wsUrl) :
       IF ok
       THEN wsOpen' = TRUE /\ co_pc' = "go" /\ ret' = ret
       ELSE wsOpen' = wsOpen /\ co_pc' = "returned" /\ ret' = "err"
  /\ UNCHANGED <<remoteVars, rm_pc, tabs, ti, wsUrl, started>>

\* go remote.readMessages()
Connect_Go ==
  /\ co_pc = "go"
  /\ started' = started + 1
  /\ rm_pc' = "loop"
  /\ co_pc' = "return"
  /\ UNCHANGED <<remoteVars, wsOpen, tabs, ti, wsUrl, dialed, ret>>

\* return remote, nil
Connect_Return ==
  /\ co_pc = "return"
  /\ ret' = "remote"
  /\ co_pc' = "returned"
  /\ UNCHANGED <<remoteVars, wsOpen, rm_pc, tabs, ti, wsUrl, dialed, started>>

ConnectNext ==
  \/ Connect_TabList
  \/ Connect_Scan
  \/ Connect_Dial
  \/ Connect_Go
  \/ Connect_Return

\* Connect alone, from before its first step to its return.
ConnectSpec == ConnectInit /\ [][ConnectNext]_vars

\* The process runs until the runtime aborts it.
Alive == ~crashed

\* ------------------------------------------------------------- sendRequest
\* Mutant: the lock excludes nobody.
CanLockAlways == TRUE

\* sync.Mutex.Lock on r_lock returns only while no goroutine holds it.
CanLock == r_lock = ""

\* Mutant: the envelope carries the shared counter instead of the local copy.
EnvelopeIdShared(c) == reqid

\* The id put in the envelope: the caller's local reqid.
EnvelopeId(c) == myid[c]

\* remote.r_lock.Lock(); reqid := remote.reqid
SR_Lock(c) ==
  /\ Alive
  /\ UNCHANGED connVars
  /\ pc[c] \in {"idle", "done"}
  /\ reqid < MaxCalls
  /\ CanLock
  /\ r_lock' = c
  /\ myid' = [myid EXCEPT ![c] = reqid]
  /\ pc' = [pc EXCEPT ![c] = "alloc"]
  /\ res' = [res EXCEPT ![c] = NoResult]
  /\ err' = [err EXCEPT ![c] = ""]
  /\ wch' = [wch EXCEPT ![c] = NilChan]
  /\ UNCHANGED <<reqid, closed, responses, chans, wsOpen, wire, cl_pc,
                 readerVars, peerVars, logged, crashed>>

\* Mutant: the id is allocated but its slot is not recorded before the write.
SR_AllocUnrecorded(c) ==
  /\ Alive
  /\ UNCHANGED connVars
  /\ pc[c] = "alloc"
  /\ reqid' = reqid + 1
  /\ r_lock' = ""
  /\ pc' = [pc EXCEPT ![c] = "write"]
  /\ UNCHANGED <<closed, responses, chans, wsOpen, wire, myid, res, err, wch,
                 cl_pc, readerVars, peerVars, logged, crashed>>

\* remote.responses[reqid] = make(chan json.RawMessage, 1); remote.reqid++;
\* remote.r_lock.Unlock()
SR_Alloc(c) ==
  /\ Alive
  /\ UNCHANGED connVars
  /\ pc[c] = "alloc"
  /\ responses' = Store(responses, myid[c], Handle(myid[c]))
  /\ chans' = [chans EXCEPT ![Handle(myid[c])] = <<>>]
  /\ reqid' = reqid + 1
  /\ r_lock' = ""
  /\ pc' = [pc EXCEPT ![c] = "write"]
  /\ UNCHANGED <<closed, wsOpen, wire, myid, res, err, wch,
                 cl_pc, readerVars, peerVars, logged, crashed>>

\* json.Marshal(command) cannot fail: sendRequest is unexported and its callers
\* (getDomains, Navigate, events) pass nil or a map of strings, so the error
\* return after Marshal is never taken.
\* Mutant: a failed write tears the connection down and drops the call's entry.
SR_WriteTeardown(c) ==
  /\ Alive
  /\ UNCHANGED connVars
  /\ pc[c] = "write"
  /\ \E ok \in (IF wsOpen THEN BOOLEAN ELSE {FALSE}) :
       IF ok
       THEN /\ wire' = Append(wire, EnvelopeId(c))
            /\ pc' = [pc EXCEPT ![c] = "index"]
            /\ UNCHANGED <<err, closed, responses>>
       ELSE /\ wire' = wire
            /\ pc' = [pc EXCEPT ![c] = "done"]
            /\ err' = [err EXCEPT ![c] = "send"]
            /\ closed' = TRUE
            /\ responses' = Store(responses, myid[c], NilChan)
  /\ UNCHANGED <<reqid, chans, r_lock, wsOpen, myid, res, wch,
                 cl_pc, readerVars, peerVars, logged, crashed>>

\* _, err = remote.ws.Write(bytes); if err != nil { return nil, err }
\* The write of one envelope is one step: websocket.Conn.Write sends a whole
\* frame under the connection's own write lock.  A write on a connection this
\* side has closed fails; on an open one it may fail.
SR_Write(c) ==
  /\ Alive
  /\ UNCHANGED connVars
  /\ pc[c] = "write"
  /\ \E ok \in (IF wsOpen THEN BOOLEAN ELSE {FALSE}) :
       IF ok
       THEN /\ wire' = Append(wire, EnvelopeId(c))
            /\ pc' = [pc EXCEPT ![c] = "index"]
            /\ err' = err
       ELSE /\ wire' = wire
            /\ pc' = [pc EXCEPT ![c] = "done"]
            /\ err' = [err EXCEPT ![c] = "send"]
  /\ UNCHANGED <<reqid, closed, responses, chans, r_lock, wsOpen, myid, res, wch,
                 cl_pc, readerVars, peerVars, logged, crashed>>

\* Another caller is about to write the map inside its critical section.
MapWriter(c) == \E d \in Callers \ {c} : pc[d] \in {"alloc", "clear"}

\* remote.responses[reqid] in `res := <-remote.responses[reqid]`: the map is
\* read without r_lock.
SR_Index(c) ==
  /\ Alive
  /\ UNCHANGED connVars
  /\ pc[c] = "index"
  /\ wch' = [wch EXCEPT ![c] = Lookup(responses, myid[c])]
  /\ pc' = [pc EXCEPT ![c] = "recv"]
  /\ UNCHANGED <<reqid, closed, responses, chans, r_lock, wsOpen, wire, myid, res, err,
                 cl_pc, readerVars, peerVars, logged, crashed>>

\* The same read while another caller writes the map: the Go runtime may abort
\* the process ("fatal error: concurrent map read and map write").
SR_IndexRace(c) ==
  /\ Alive
  /\ UNCHANGED connVars
  /\ pc[c] = "index"
  /\ MapWriter(c)
  /\ crashed' = TRUE
  /\ UNCHANGED <<reqid, closed, responses, chans, r_lock, wsOpen, wire, callerVars,
                 cl_pc, readerVars, peerVars, logged>>

\* Mutant: the exit of readMessages releases the waiting calls, as if it
\* closed their channels.
SR_RecvReleased(c) ==
  /\ Alive
  /\ UNCHANGED connVars
  /\ pc[c] = "recv"
  /\ wch[c] # NilChan
  /\ IF chans[wch[c]] # <<>>
     THEN /\ res' = [res EXCEPT ![c] = Head(chans[wch[c]])]
          /\ chans' = [chans EXCEPT ![wch[c]] = Tail(@)]
     ELSE /\ rm_pc = "exit"
          /\ UNCHANGED <<res, chans>>
  /\ pc' = [pc EXCEPT ![c] = "lock2"]
  /\ UNCHANGED <<reqid, closed, responses, r_lock, wsOpen, wire, myid, err, wch,
                 cl_pc, readerVars, peerVars, logged, crashed>>

\* res := <-ch: blocks until the channel holds a value (forever on a nil channel)
SR_Recv(c) ==
  /\ Alive
  /\ UNCHANGED connVars
  /\ pc[c] = "recv"
  /\ wch[c] # NilChan
  /\ chans[wch[c]] # <<>>
  /\ res' = [res EXCEPT ![c] = Head(chans[wch[c]])]
  /\ chans' = [chans EXCEPT ![wch[c]] = Tail(@)]
  /\ pc' = [pc EXCEPT ![c] = "lock2"]
  /\ UNCHANGED <<reqid, closed, responses, r_lock, wsOpen, wire, myid, err, wch,
                 cl_pc, readerVars, peerVars, logged, crashed>>

\* remote.r_lock.Lock()
SR_Lock2(c) ==
  /\ Alive
  /\ UNCHANGED connVars
  /\ pc[c] = "lock2"
  /\ CanLock
  /\ r_lock' = c
  /\ pc' = [pc EXCEPT ![c] = "clear"]
  /\ UNCHANGED <<reqid, closed, responses, chans, wsOpen, wire, myid, res, err, wch,
                 cl_pc, readerVars, peerVars, logged, crashed>>

\* remote.responses[reqid] = nil; remote.r_lock.Unlock(); return res, nil
SR_Clear(c) ==
  /\ Alive
  /\ UNCHANGED connVars
  /\ pc[c] = "clear"
  /\ responses' = Store(responses, myid[c], NilChan)
  /\ r_lock' = ""
  /\ pc' = [pc EXCEPT ![c] = "done"]
  /\ UNCHANGED <<reqid, closed, chans, wsOpen, wire, myid, res, err, wch,
                 cl_pc, readerVars, peerVars, logged, crashed>>

\* ------------------------------------------------------------------- Close
\* remote.closed = true
Close_Flag ==
  /\ Alive
  /\ UNCHANGED connVars
  /\ cl_pc = "idle"
  /\ closed' = TRUE
  /\ cl_pc' = "ws"
  /\ UNCHANGED <<reqid, responses, chans, r_lock, wsOpen, wire, callerVars,
                 readerVars, peerVars, logged, crashed>>

\* return remote.ws.Close()
Close_Ws ==
  /\ Alive
  /\ UNCHANGED connVars
  /\ cl_pc = "ws"
  /\ wsOpen' = FALSE
  /\ cl_pc' = "done"
  /\ UNCHANGED <<reqid, closed, responses, chans, r_lock, wire, callerVars,
                 readerVars, peerVars, logged, crashed>>

\* ------------------------------------------------------------ readMessages
\* The buffer capacity of a slot: make(chan json.RawMessage, 1).
ChanCap == 1

\* The framing test: bytes[0] == '{' && bytes[len(bytes)-1] != '}'
Incomplete(b) == b[1] = LB /\ b[Len(b)] # RB

\* Mutant: a message that carries an id is never taken as an event.
IsEventNoId(m) == m.Method # 0 /\ m.Id = 0

\* message.Method != "": the message is an event notification
IsEvent(m) == m.Method # 0

\* Mutant: the reply goes to the call registered last.
ReplyChanLast(m) == Lookup(responses, reqid - 1)

\* Mutant: a reply with an unknown id falls back to the first slot.
ReplyChanDefault(m) == IF m.Id \in DOMAIN responses THEN responses[m.Id] ELSE Lookup(responses, 0)

\* ch := remote.responses[message.Id]
ReplyChan(m) == Lookup(responses, m.Id)

\* readMessages returns: its locals are gone, and nothing reads the stream again
Exit ==
  /\ rm_pc' = "exit"
  /\ bytes' = <<>>
  /\ cur' = <<>>
  /\ inflight' = <<>>
  /\ fclean' = TRUE
  /\ UNCHANGED <<message, ch, nframes>>

\* for !remote.closed
RM_Loop ==
  /\ Alive
  /\ UNCHANGED connVars
  /\ rm_pc = "loop"
  /\ IF closed THEN Exit ELSE rm_pc' = "read" /\ UNCHANGED <<bytes, message, ch, peerVars>>
  /\ logged' = ""
  /\ UNCHANGED <<reqid, closed, responses, chans, r_lock, wsOpen, wire, callerVars,
                 cl_pc, crashed>>

\* remote.ws.Read(buf) returns io.EOF: log.Println("read error", err); break
RM_ReadEOF ==
  /\ Alive
  /\ UNCHANGED connVars
  /\ rm_pc = "read"
  /\ Exit
  /\ logged' = "read error"
  /\ UNCHANGED <<reqid, closed, responses, chans, r_lock, wsOpen, wire, callerVars,
                 cl_pc, crashed>>

\* Mutant: any read error ends the loop.
RM_ReadErrorFatal ==
  /\ Alive
  /\ UNCHANGED connVars
  /\ rm_pc = "read"
  /\ Exit
  /\ logged' = "read error"
  /\ UNCHANGED <<reqid, closed, responses, chans, r_lock, wsOpen, wire, callerVars,
                 cl_pc, crashed>>

\* remote.ws.Read(buf) returns another error: log.Println("read error", err),
\* then the next iteration
RM_ReadError ==
  /\ Alive
  /\ UNCHANGED connVars
  /\ rm_pc = "read"
  /\ rm_pc' = "loop"
  /\ logged' = "read error"
  /\ UNCHANGED <<reqid, closed, responses, chans, r_lock, wsOpen, wire, callerVars,
                 cl_pc, bytes, message, ch, peerVars, crashed>>

\* remote.ws.Read(buf) returns n = 0 and no error (the peer sent an empty
\* frame): nothing is appended and the buffer goes to the decoder as it is
RM_ReadZero ==
  /\ Alive
  /\ UNCHANGED connVars
  /\ rm_pc = "read"
  /\ wsOpen
  /\ inflight = <<>>
  /\ rm_pc' = "unmarshal"
  /\ UNCHANGED <<reqid, closed, responses, chans, r_lock, wsOpen, wire, callerVars,
                 cl_pc, bytes, message, ch, peerVars, logged, crashed>>

\* n > 0: bytes = append(bytes, buf[:n]...), then the framing test
Append_n(src, n) ==
  /\ bytes' = bytes \o SubSeq(src, 1, n)
  /\ inflight' = SubSeq(src, n + 1, Len(src))
  /\ rm_pc' = IF Incomplete(bytes') THEN "loop" ELSE "unmarshal"

\* remote.ws.Read(buf) returns the first n bytes of a frame the peer sends now
RM_ReadNew ==
  /\ Alive
  /\ UNCHANGED connVars
  /\ rm_pc = "read"
  /\ wsOpen
  /\ inflight = <<>>
  /\ nframes < MaxFrames
  /\ \E f \in Frames : \E n \in 1 .. Len(f) :
       /\ Append_n(f, n)
       /\ cur' = f
  /\ nframes' = nframes + 1
  /\ fclean' = (bytes = <<>>)
  /\ UNCHANGED <<reqid, closed, responses, chans, r_lock, wsOpen, wire, callerVars,
                 cl_pc, message, ch, logged, crashed>>

\* remote.ws.Read(buf) returns the next n bytes of the frame being read
RM_ReadMore ==
  /\ Alive
  /\ UNCHANGED connVars
  /\ rm_pc = "read"
  /\ wsOpen
  /\ inflight # <<>>
  /\ \E n \in 1 .. Len(inflight) : Append_n(inflight, n)
  /\ UNCHANGED <<reqid, closed, responses, chans, r_lock, wsOpen, wire, callerVars,
                 cl_pc, message, ch, cur, nframes, fclean, logged, crashed>>

\* The frame is forgotten once it is read to its end and the buffer is reset.
FrameDone ==
  /\ cur' = IF inflight = <<>> THEN <<>> ELSE cur
  /\ fclean' = IF inflight = <<>> THEN TRUE ELSE fclean
  /\ UNCHANGED <<inflight, nframes>>

\* Mutant: a unit that fails to decode ends the loop.
RM_UnmarshalFatal ==
  /\ Alive
  /\ UNCHANGED connVars
  /\ rm_pc = "unmarshal"
  /\ LET m == Unmarshal(bytes) IN
       IF ~m.ok
       THEN /\ logged' = "error unmarshaling"
            /\ Exit
       ELSE IF IsEvent(m)
       THEN /\ logged' = "EVENT"
            /\ bytes' = <<>>
            /\ rm_pc' = "loop"
            /\ FrameDone
            /\ UNCHANGED <<message, ch>>
       ELSE /\ message' = m
            /\ rm_pc' = "lock"
            /\ UNCHANGED <<bytes, logged, peerVars, ch>>
  /\ UNCHANGED <<reqid, closed, responses, chans, r_lock, wsOpen, wire, callerVars,
                 cl_pc, crashed>>

\* json.Unmarshal(bytes, &message) and the choice of the route
RM_Unmarshal ==
  /\ Alive
  /\ UNCHANGED connVars
  /\ rm_pc = "unmarshal"
  /\ LET m == Unmarshal(bytes) IN
       IF ~m.ok
       THEN \* log.Println("error unmarshaling", ...); bytes = nil
            /\ logged' = "error unmarshaling"
            /\ bytes' = <<>>
            /\ rm_pc' = "loop"
            /\ FrameDone
            /\ UNCHANGED message
       ELSE IF IsEvent(m)
       THEN \* log.Println("EVENT", ...); bytes = nil
            /\ logged' = "EVENT"
            /\ bytes' = <<>>
            /\ rm_pc' = "loop"
            /\ FrameDone
            /\ UNCHANGED message
       ELSE /\ message' = m
            /\ rm_pc' = "lock"
            /\ UNCHANGED <<bytes, logged, peerVars>>
  /\ UNCHANGED <<reqid, closed, responses, chans, r_lock, wsOpen, wire, callerVars,
                 cl_pc, ch, crashed>>

\* remote.r_lock.Lock()
RM_Lock ==
  /\ Alive
  /\ UNCHANGED connVars
  /\ rm_pc = "lock"
  /\ CanLock
  /\ r_lock' = "rm"
  /\ rm_pc' = "lookup"
  /\ UNCHANGED <<reqid, closed, responses, chans, wsOpen, wire, callerVars,
                 cl_pc, bytes, message, ch, peerVars, logged, crashed>>

\* ch := remote.responses[message.Id]; remote.r_lock.Unlock()
RM_Lookup ==
  /\ Alive
  /\ UNCHANGED connVars
  /\ rm_pc = "lookup"
  /\ ch' = ReplyChan(message)
  /\ r_lock' = ""
  /\ rm_pc' = "send"
  /\ UNCHANGED <<reqid, closed, responses, chans, wsOpen, wire, callerVars,
                 cl_pc, bytes, message, peerVars, logged, crashed>>

\* if ch != nil { ch <- message.Result }; bytes = nil
\* The send blocks while the channel's buffer is full.  A value in a channel
\* is kept with the id of the message it came from.
RM_Send ==
  /\ Alive
  /\ UNCHANGED connVars
  /\ rm_pc = "send"
  /\ IF ch = NilChan
     THEN chans' = chans
     ELSE /\ Len(chans[ch]) < ChanCap
          /\ chans' = [chans EXCEPT ![ch] = Append(@, [id |-> message.Id, val |-> message.Result])]
  /\ bytes' = <<>>
  /\ message' = ZeroMessage
  /\ ch' = NilChan
  /\ rm_pc' = "loop"
  /\ FrameDone
  /\ UNCHANGED <<reqid, closed, responses, r_lock, wsOpen, wire, callerVars,
                 cl_pc, logged, crashed>>

\* ----------------------------------------------------------- specification
Caller(c) ==
  \/ SR_Lock(c) \/ SR_Alloc(c) \/ SR_Write(c) \/ SR_Index(c)
  \/ SR_IndexRace(c) \/ SR_Recv(c) \/ SR_Lock2(c) \/ SR_Clear(c)

Reader ==
  \/ RM_Loop \/ RM_ReadEOF \/ RM_ReadError \/ RM_ReadZero \/ RM_ReadNew \/ RM_ReadMore
  \/ RM_Unmarshal \/ RM_Lock \/ RM_Lookup \/ RM_Send

Closer == Close_Flag \/ Close_Ws

Next ==
  \/ \E c \in Callers : Caller(c)
  \/ Reader
  \/ Closer

Spec == Init /\ [][Next]_vars

\* Fairness: every goroutine that can take a step of sendRequest or readMessages
\* eventually takes one (the Go scheduler runs every runnable goroutine, and a
\* blocked Read is assumed to return); r_lock is handed to each waiter in the
\* end.  Nobody is obliged to start a call or to call Close.
CallerProgress(c) ==
  SR_Alloc(c) \/ SR_Write(c) \/ SR_Index(c) \/ SR_Recv(c) \/ SR_Clear(c)

FairSpec ==
  /\ Spec
  /\ WF_vars(Reader)
  /\ \A c \in Callers : WF_vars(CallerProgress(c)) /\ SF_vars(SR_Lock2(c))

\* ------------------------------------------------------------------ claims
Returned(c) == pc[c] = "done" /\ err[c] = ""
HasResult(c) == pc[c] \in {"lock2", "clear"} \/ Returned(c)

\* C1: no cross-delivery.  Whatever the interleaving of the callers and the
\* order of the replies, the value a call received came from a message whose
\* decoded id is the id the call allocated, and every value waiting in a slot
\* came from a message bearing that slot's id.
C1_NoCrossDelivery ==
  /\ \A c \in Callers : HasResult(c) => res[c].id = myid[c]
  /\ \A i \in IdSpace : \A k \in DOMAIN chans[Handle(i)] : chans[Handle(i)][k].id = i

\* Two concurrent calls have both returned, each with the payload sent for its id.
C1_Witness ==
  \E c, d \in Callers :
    /\ c # d /\ Returned(c) /\ Returned(d)
    /\ myid[c] # myid[d]
    /\ res[c].val = PayloadOf(myid[c]) /\ res[d].val = PayloadOf(myid[d])

\* C2: identifier allocation.  No two calls hold the same id, the counter and
\* the table agree whenever r_lock is free (read, record and increment are one
\* critical section), a caller inside the section still sees the counter it
\* read, and the counter only ever grows, by one.
C2_Inv ==
  /\ \A c, d \in Callers : (c # d /\ pc[c] # "idle" /\ pc[d] # "idle") => myid[c] # myid[d]
  /\ r_lock \notin Callers => DOMAIN responses = 0 .. (reqid - 1)
  /\ \A c \in Callers : pc[c] = "alloc" => (myid[c] = reqid /\ r_lock = c)
  /\ \A c \in Callers : pc[c] \notin {"idle", "alloc"} => myid[c] < reqid

C2_UniqueIds ==
  /\ []C2_Inv
  /\ [][reqid' = reqid \/ (reqid' = reqid + 1 /\ \E c \in Callers : pc[c] = "alloc" /\ pc'[c] = "write")]_vars

\* Two calls are pending at once, with different ids.
C2_Witness ==
  \E c, d \in Callers : c # d /\ pc[c] = "recv" /\ pc[d] = "recv" /\ myid[c] # myid[d]

\* C3: fragmented delivery.  When a well-formed reply that began on an empty
\* buffer goes to the decoder, the buffer holds the whole reply: no fragment of
\* it is decoded, or discarded, on its own.
C3_Reassembled ==
  (rm_pc = "unmarshal" /\ cur \in ReplyFrames /\ fclean) => bytes = cur

\* C4 as claimed: envelopes appear on the stream in the order the calls were
\* invoked, that is in the order of their ids.
C4_WireInCallOrder ==
  \A i, j \in DOMAIN wire : i < j => wire[i] < wire[j]

\* C4 as amended: an envelope is written whole, at most once for each id and
\* only after that id was allocated and its slot recorded; envelopes appear in
\* the order the writes execute, which for concurrent calls need not be the
\* order the ids were allocated in.
C4_WireWellFormed ==
  /\ \A i, j \in DOMAIN wire : i # j => wire[i] # wire[j]
  /\ \A i \in DOMAIN wire : wire[i] < reqid /\ wire[i] \in DOMAIN responses
  /\ \A c \in Callers : pc[c] = "write" => \A i \in DOMAIN wire : wire[i] # myid[c]
  /\ \A c \in Callers : pc[c] \in {"index", "recv", "lock2", "clear"} =>
       \E i \in DOMAIN wire : wire[i] = myid[c]

\* The call that allocated id 1 wrote its envelope before the call with id 0.
C4_Witness == wire = <<1, 0>>

\* C5: liveness of a call.  Once a call's envelope is written and a reply
\* bearing its id has been delivered into its slot, the call eventually returns
\* that payload with a nil error.
C5_CallReturns ==
  \A c \in Callers :
    (pc[c] \in {"index", "recv"} /\ chans[Handle(myid[c])] # <<>>)
      ~> (Returned(c) /\ res[c].id = myid[c])

\* C6: notifications and replies are routed disjointly.  A decoded message with
\* a method name is logged as an event, leaves every slot as it is and never
\* enters the reply path; a decoded message without one enters the reply path
\* and is not logged; and only a message without a method name is ever put in
\* a slot.
C6_DisjointRoutes ==
  /\ [][(rm_pc = "unmarshal" /\ rm_pc' # "unmarshal" /\ Unmarshal(bytes).ok) =>
          IF Unmarshal(bytes).Method # 0
          THEN logged' = "EVENT" /\ rm_pc' = "loop" /\ chans' = chans /\ responses' = responses
          ELSE logged' # "EVENT" /\ rm_pc' = "lock"]_vars
  /\ [][(\E h \in DOMAIN chans : Len(chans'[h]) > Len(chans[h])) =>
          (rm_pc = "send" /\ message.Method = 0 /\ logged # "EVENT" /\ logged' = logged)]_vars
  /\ [](rm_pc \in {"lock", "lookup", "send"} => (message.Method = 0 /\ logged # "EVENT"))

\* A notification carrying the id of a pending call was logged, and that call
\* is still waiting on an empty slot.
C6_Witness ==
  /\ logged = "EVENT"
  /\ \E c \in Callers : pc[c] = "recv" /\ myid[c] = 1 /\ chans[wch[c]] = <<>>
  /\ nframes = 1

\* C7: unknown reply.  A reply whose id was never allocated finds no channel
\* and is dropped: the loop goes on to its next iteration, and no slot, no
\* caller, neither the table, the counter nor the closed flag changes.
C7_UnknownReplyDropped ==
  /\ [][(rm_pc = "lookup" /\ rm_pc' # "lookup" /\ message.Id \notin DOMAIN responses) =>
          (ch' = NilChan /\ rm_pc' = "send")]_vars
  /\ [][(rm_pc = "send" /\ ch = NilChan /\ rm_pc' # "send") =>
          /\ rm_pc' = "loop"
          /\ chans' = chans /\ responses' = responses /\ reqid' = reqid
          /\ closed' = closed /\ crashed' = crashed
          /\ UNCHANGED callerVars]_vars
  /\ [](rm_pc = "send" /\ ch = NilChan /\ ~crashed => ENABLED RM_Send)

\* A reply bearing the id that is never allocated is about to be dropped while
\* a call waits on its slot.
C7_Witness ==
  /\ rm_pc = "send" /\ ch = NilChan /\ message.Id = MaxCalls
  /\ \E c \in Callers : pc[c] = "recv"

\* C8: write failure.  The call whose write fails returns the error at once,
\* without a result; its entry stays recorded, no slot changes, the closed
\* flag and the connection are left alone, the dispatch loop stays where it
\* is, and no other caller is affected.
C8_WriteFailure ==
  [][\A c \in Callers :
       (pc[c] = "write" /\ pc'[c] = "done") =>
         /\ err'[c] = "send" /\ res'[c] = NoResult
         /\ myid[c] \in DOMAIN responses'
         /\ responses'[myid[c]] = Handle(myid[c])
         /\ responses' = responses /\ chans' = chans /\ reqid' = reqid
         /\ closed' = closed /\ wsOpen' = wsOpen /\ wire' = wire
         /\ UNCHANGED readerVars
         /\ \A d \in Callers \ {c} :
              pc'[d] = pc[d] /\ myid'[d] = myid[d] /\ res'[d] = res[d] /\ err'[d] = err[d]]_vars

\* One call failed in its write on an open connection, and another call, still
\* pending then, has received its reply.
C8_Witness ==
  \E c, d \in Callers :
    /\ c # d
    /\ pc[c] = "done" /\ err[c] = "send" /\ myid[c] = 0
    /\ pc[d] = "lock2" /\ res[d].id = myid[d] /\ myid[d] = 1
    /\ ~closed /\ rm_pc # "exit"

\* C9: once Close has set the closed flag no write to the stream is attempted
\* (no caller leaves the point where it calls ws.Write), and the flag stays set.
C9_NoWriteOnceClosed ==
  /\ [][closed => \A c \in Callers : pc[c] = "write" => pc'[c] = "write"]_vars
  /\ [][closed => closed']_vars

\* C10: dispatch loop termination.  After Close has set the flag, or the read
\* has reported end-of-stream, readMessages exits (unless the process has been
\* aborted), and once it has exited it delivers nothing and stays exited.
C10_LoopTerminates ==
  /\ (closed /\ ~crashed) ~> (rm_pc = "exit" \/ crashed)
  /\ [][rm_pc = "exit" =>
          (rm_pc' = "exit" /\ logged' = logged
           /\ \A h \in DOMAIN chans : Len(chans'[h]) <= Len(chans[h]))]_vars

\* ------------------------------------------------------------------ C11
\* C11 (as stated): every read error, end-of-stream or not, ends the dispatch
\* loop: the step in which readMessages logs a read error takes it out of the
\* loop, even while closed is false.
C11_AnyReadErrorFatal ==
  [][(rm_pc = "read" /\ logged' = "read error") => rm_pc' = "exit"]_vars

\* C11 (amended): only end-of-stream ends the loop on a read error.  Any read
\* may fail with another error; that error is logged and the loop goes to its
\* next iteration with the buffer, the slots and the registry untouched; from
\* there it leaves only if closed is set, and otherwise reads again.  Once out
\* of the loop it stays out.
C11_OnlyEOFFatal ==
  /\ []((rm_pc = "read" /\ Alive) =>
          ENABLED (Reader /\ logged' = "read error" /\ rm_pc' = "loop"))
  /\ [][(rm_pc = "read" /\ logged' = "read error") =>
          \/ rm_pc' = "exit"
          \/ rm_pc' = "loop" /\ bytes' = bytes /\ chans' = chans
             /\ responses' = responses /\ closed' = closed]_vars
  /\ [][(rm_pc = "loop" /\ logged = "read error" /\ rm_pc' # rm_pc) =>
          rm_pc' = (IF closed THEN "exit" ELSE "read")]_vars
  /\ [][rm_pc = "exit" => rm_pc' = "exit"]_vars

\* A non-EOF read error was logged in the middle of a unit while closed is
\* false, and the loop is about to read again with the partial unit kept.
C11_Witness ==
  /\ rm_pc = "loop"
  /\ logged = "read error"
  /\ ~closed
  /\ bytes # <<>>

\* ------------------------------------------------------------------ C12
\* C12: delivering a reply into a slot never blocks readMessages.  Whenever the
\* loop is about to send into a slot that no caller will receive from any more
\* (its call failed to write, or already took its reply), the slot has room, so
\* the send completes at once.
C12_DeliveryNeverBlocks ==
  (/\ Alive
   /\ rm_pc = "send"
   /\ ch # NilChan
   /\ ~\E c \in Callers : myid[c] = message.Id /\ pc[c] \in {"write", "index", "recv"})
  => Len(chans[ch]) < ChanCap

\* ------------------------------------------------------------------ C13
\* C13: every access to the registry (reqid and responses) happens under
\* r_lock: a goroutine that is recording or clearing its slot, or looking a
\* slot up, holds the lock, and no caller reads the map for its wait while
\* another goroutine is inside a section that writes the map.
C13_RegistrySerialized ==
  /\ \A c \in Callers : pc[c] \in {"alloc", "clear"} => r_lock = c
  /\ rm_pc = "lookup" => r_lock = "rm"
  /\ \A c \in Callers :
       pc[c] = "index" =>
         (r_lock = c \/ ~\E d \in Callers \ {c} : pc[d] \in {"alloc", "clear"})

\* ------------------------------------------------------------------ C14
\* C14: resolving consumes the entry, so a further reply carrying the id of a
\* call that already took its payload is placed in no slot: the slot of such a
\* call stays empty.
C14_ResolvedSlotStaysEmpty ==
  \A c \in Callers : HasResult(c) => chans[Handle(myid[c])] = <<>>

\* ------------------------------------------------------------------ C15
\* C15: a unit that fails to decode is not fatal.  The step that finds the
\* accumulated unit undecodable logs it, empties the buffer, delivers nothing,
\* changes neither the registry nor closed nor the connection, and returns to
\* the head of the loop with the loop's locals as they were at the start; from
\* there the loop reads again unless closed is set.  A reply that then arrives
\* on the emptied buffer decodes to its own id and payload and is looked up
\* under that id.
C15_DecodeFailureNonFatal ==
  /\ [][(rm_pc = "unmarshal" /\ ~Unmarshal(bytes).ok /\ rm_pc' # rm_pc) =>
          /\ rm_pc' = "loop"
          /\ logged' = "error unmarshaling"
          /\ bytes' = <<>> /\ message' = ZeroMessage /\ ch' = NilChan
          /\ chans' = chans /\ responses' = responses /\ reqid' = reqid
          /\ closed' = closed /\ wsOpen' = wsOpen
          /\ callerVars' = callerVars]_vars
  /\ [][(rm_pc = "loop" /\ logged = "error unmarshaling" /\ rm_pc' # rm_pc) =>
          rm_pc' = (IF closed THEN "exit" ELSE "read")]_vars
  /\ []((rm_pc = "lock" /\ fclean /\ cur \in ReplyFrames /\ bytes = cur) =>
          /\ message.Id = cur[2].v
          /\ message.Result = PayloadOf(cur[2].v))
  /\ [][rm_pc = "lookup" /\ rm_pc' # rm_pc => ch' = Lookup(responses, message.Id)]_vars

\* A unit was just discarded for a decode failure while a call is waiting on
\* its slot and closed is unset; the loop is about to read again.
C15_Witness ==
  /\ rm_pc = "loop"
  /\ logged = "error unmarshaling"
  /\ ~closed
  /\ wsOpen
  /\ \E c \in Callers : pc[c] = "recv" /\ chans[wch[c]] = <<>>

\* ------------------------------------------------------------------ C16
\* A call that waits for its reply (it wrote its envelope and has not received
\* yet) after readMessages has left its loop, with nothing in its slot.
Stranded(c) ==
  /\ rm_pc = "exit"
  /\ pc[c] \in {"index", "recv"}
  /\ chans[Handle(myid[c])] = <<>>

\* C16: a call that is waiting with an empty slot when the dispatch loop has
\* exited stays so whatever happens next: it never receives, never returns a
\* result or an error, and nothing is ever put in its slot.
C16_PendingCallNeverReturns ==
  [][\A c \in Callers :
       Stranded(c) => (Stranded(c)' /\ myid'[c] = myid[c] /\ res'[c] = NoResult /\ err'[c] = "")]_vars

\* Close has completed and the loop has exited while a call that wrote its
\* envelope waits on its own, empty, slot.
C16_Witness ==
  \E c \in Callers :
    /\ Stranded(c)
    /\ pc[c] = "recv"
    /\ wch[c] = Handle(myid[c])
    /\ cl_pc = "done"

\* ------------------------------------------------------------------ C17
\* The address of the first listed target that has one, "" when none has.
FirstAddress(l) ==
  IF \E k \in DOMAIN l : l[k] # ""
  THEN l[CHOOSE k \in DOMAIN l : l[k] # "" /\ \A j \in 1 .. (k - 1) : l[j] = ""]
  ELSE ""

\* C17: Connect dials the address of the first listed target whose address is
\* not empty, and the empty address when there is none; when discovery or the
\* dial fails it returns an error and no readMessages goroutine was started;
\* when it returns a connection, the stream is open and exactly one
\* readMessages goroutine was started, before the return.
C17_Connect ==
  /\ dialed # "none" => dialed = FirstAddress(tabs)
  /\ started <= 1
  /\ started = 1 <=> rm_pc = "loop"
  /\ ret = "err" => (started = 0 /\ co_pc = "returned")
  /\ ret = "remote" => (started = 1 /\ wsOpen /\ dialed # "" /\ co_pc = "returned")
  /\ (co_pc = "returned" /\ ret = "remote") \/ started = 0 \/ co_pc = "return"
  /\ co_pc = "returned" => ret # "none"

\* Connect returned a connection to the second address of a listing whose first
\* target has no address and whose third has another one.
C17_Witness ==
  /\ ret = "remote"
  /\ started = 1
  /\ tabs = <<"", "ws2", "ws1">>
  /\ dialed = "ws2"

\* ------------------------------------------------------------------ C18
\* C18: registration precedes the write.  Every id on the stream was allocated
\* and is a key of responses; as long as its call has not received, the key
\* holds the call's own channel, so the loop's lookup of a reply to it finds
\* that channel; and a payload buffered in the slot before the caller waits
\* stays there untouched until the caller's receive takes exactly it.
C18_RegisteredBeforeWrite ==
  /\ [](\A k \in 1 .. Len(wire) : wire[k] < reqid /\ wire[k] \in DOMAIN responses)
  /\ [](\A c \in Callers :
          pc[c] \in {"write", "index", "recv"} =>
            Lookup(responses, myid[c]) = Handle(myid[c]))
  /\ [][(rm_pc = "lookup" /\ rm_pc' # rm_pc
         /\ \E c \in Callers : pc[c] \in {"index", "recv"} /\ myid[c] = message.Id)
        => ch' = Handle(message.Id)]_vars
  /\ [][\A c \in Callers :
         (pc[c] \in {"index", "recv"} /\ chans[Handle(myid[c])] # <<>>) =>
           \/ pc'[c] \in {"index", "recv"} /\ chans'[Handle(myid[c])] = chans[Handle(myid[c])]
           \/ pc'[c] = "lock2" /\ res'[c] = Head(chans[Handle(myid[c])])]_vars

\* The reply to a written request sits in its slot while the caller has not
\* yet started to wait on it.
C18_Witness ==
  \E c \in Callers :
    /\ pc[c] = "index"
    /\ myid[c] \in {wire[k] : k \in 1 .. Len(wire)}
    /\ chans[Handle(myid[c])] = <<[id |-> myid[c], val |-> PayloadOf(myid[c])]>>

\* ------------------------------------------------------------------ C19
\* C19: a call is resolved only by a message that carries its id.  The payload
\* of a message with neither a method nor an id field is never what a call
\* receives, the call with id 0 included.
C19_OnlyExplicitId ==
  \A c \in Callers : HasResult(c) => res[c].val # AnonPayload

====
